---- MODULE Spec2Model ----
(***************************************************************************)
(* bd-complete: the cobra-style help-text parser (src/src/parser.rs) and   *)
(* the command tree it assembles (src/src/command_tree.rs).                *)
(*                                                                         *)
(* Strings are TLA+ strings; a character is a string of length one.  A     *)
(* help text is the sequence of its lines, as text.lines() yields them.    *)
(* Option<T> is a sequence: None is << >> and Some(x) is << x >>.          *)
(* A BTreeMap<String, Command> is a function whose domain is its key set.  *)
(***************************************************************************)
EXTENDS Integers, Sequences, FiniteSets, TLC

VARIABLES
    \* build_command_tree (parser.rs 328-370)
    pc,          \* position in build_command_tree
    root_cmd,    \* the root Command being assembled
    global_flags,\* global flags parsed from the root text
    groups,      \* groups parsed from the root text
    names,       \* subcommand_names still to visit (sorted keys of the root)
    entry,       \* << name >> of the depth-1 node being merged, or << >>
    pending,     \* parsed.subcommands of that node still to visit
    tree,        \* the returned io::Result<CommandTree>, or << >> before return
    calls,       \* every run_help invocation, in order, with what it returned
    \* parse_help_output (parser.rs 32-149), one line at a time
    text,        \* the lines read so far
    acc,         \* the accumulators of the loop
    parsed,      \* the returned triple, or << >> before return
    \* parse_flag_line (parser.rs 176-237)
    line,        \* the flag line handed to parse_flag_line
    flag         \* << >> before the call, then << result >>

vars == << pc, root_cmd, global_flags, groups, names, entry, pending, tree,
           calls, text, acc, parsed, line, flag >>

buildVars == << pc, root_cmd, global_flags, groups, names, entry, pending,
                tree, calls >>
parseVars == << text, acc, parsed >>
flagVars == << line, flag >>

----------------------------------------------------------------------------
(* Option<T> *)

None == << >>
Some(x) == << x >>
IsSome(o) == o # << >>
Unwrap(o) == o[1]

----------------------------------------------------------------------------
(* str primitives, as the Rust standard library computes them (ASCII)      *)

Chr(s, i) == SubSeq(s, i, i)
From(s, i) == SubSeq(s, i, Len(s))
Upto(s, i) == SubSeq(s, 1, i)

\* char::is_whitespace, restricted to the characters the inputs contain
IsWs(c) == c = " " \/ c = "\t"

StartsWith(s, p) == Len(s) >= Len(p) /\ Upto(s, Len(p)) = p
EndsWith(s, p) == Len(s) >= Len(p) /\ From(s, Len(s) - Len(p) + 1) = p

\* str::contains(char)
Contains(s, c) == \E i \in 1..Len(s) : Chr(s, i) = c

\* str::find(pattern): 1-based index of the first match, 0 when there is none
Find(s, p) ==
    LET hits == { i \in 1..(Len(s) - Len(p) + 1) : SubSeq(s, i, i + Len(p) - 1) = p }
    IN  IF hits = {} THEN 0 ELSE CHOOSE i \in hits : \A j \in hits : i <= j

RECURSIVE TrimStart(_)
TrimStart(s) == IF Len(s) > 0 /\ IsWs(Chr(s, 1)) THEN TrimStart(Tail(s)) ELSE s

RECURSIVE TrimEnd(_)
TrimEnd(s) ==
    IF Len(s) > 0 /\ IsWs(Chr(s, Len(s))) THEN TrimEnd(Upto(s, Len(s) - 1)) ELSE s

\* str::trim
Trim(s) == TrimEnd(TrimStart(s))

\* str::trim_start_matches(pattern): removes every repetition of the prefix
RECURSIVE TrimStartMatches(_, _)
TrimStartMatches(s, p) ==
    IF Len(p) > 0 /\ StartsWith(s, p)
    THEN TrimStartMatches(From(s, Len(p) + 1), p)
    ELSE s

\* str::trim_end_matches(pattern): removes every repetition of the suffix
RECURSIVE TrimEndMatches(_, _)
TrimEndMatches(s, p) ==
    IF Len(p) > 0 /\ EndsWith(s, p)
    THEN TrimEndMatches(Upto(s, Len(s) - Len(p)), p)
    ELSE s

\* str::trim_matches(char)
TrimMatches(s, c) == TrimEndMatches(TrimStartMatches(s, c), c)

\* str::split(char): every piece, empty ones included
RECURSIVE Split(_, _)
Split(s, c) ==
    LET k == Find(s, c)
    IN  IF k = 0 THEN << s >>
        ELSE << Upto(s, k - 1) >> \o Split(From(s, k + 1), c)

\* str::splitn(2, pattern)
SplitN2(s, p) ==
    LET k == Find(s, p)
    IN  IF k = 0 THEN << s >>
        ELSE << Upto(s, k - 1), From(s, k + Len(p)) >>

\* str::split_whitespace: the maximal runs of non-whitespace characters
RECURSIVE SplitWhitespace(_)
SplitWhitespace(s) ==
    LET t == TrimStart(s)
        ws == { i \in 1..Len(t) : IsWs(Chr(t, i)) }
        k == IF ws = {} THEN Len(t) + 1
             ELSE CHOOSE i \in ws : \A j \in ws : i <= j
    IN  IF Len(t) = 0 THEN << >>
        ELSE << Upto(t, k - 1) >> \o SplitWhitespace(From(t, k))

\* <[&str]>::join(" ")
RECURSIVE Join(_)
Join(ss) ==
    IF Len(ss) = 0 THEN ""
    ELSE IF Len(ss) = 1 THEN ss[1]
    ELSE ss[1] \o " " \o Join(Tail(ss))

\* Ord for String: byte-wise lexicographic order.  Ascii lists the printable
\* characters the inputs use in code order; a character's rank is its place
\* in the list.
Ascii == " !\"#$%&'()*+,-./0123456789:;<=>?@ABCDEFGHIJKLMNOPQRSTUVWXYZ[\\]^_abcdefghijklmnopqrstuvwxyz{|}~"
Rank(c) == IF c = "\t" THEN 0 ELSE Find(Ascii, c)

RECURSIVE StrLess(_, _)
StrLess(a, b) ==
    IF Len(b) = 0 THEN FALSE
    ELSE IF Len(a) = 0 THEN TRUE
    ELSE IF Chr(a, 1) = Chr(b, 1) THEN StrLess(Tail(a), Tail(b))
    ELSE Rank(Chr(a, 1)) < Rank(Chr(b, 1))

\* the keys in descending order
RECURSIVE DescendingKeys(_)
DescendingKeys(S) ==
    IF S = {} THEN << >>
    ELSE LET m == CHOOSE k \in S : \A j \in S \ {k} : StrLess(j, k)
         IN  << m >> \o DescendingKeys(S \ {m})

\* BTreeMap::keys / into_iter: the keys in ascending order
RECURSIVE SortedKeys(_)
SortedKeys(S) ==
    IF S = {} THEN << >>
    ELSE LET m == CHOOSE k \in S : \A j \in S \ {k} : StrLess(k, j)
         IN  << m >> \o SortedKeys(S \ {m})

\* BTreeMap::insert: replaces the value of a key already present
Insert(m, k, v) == (k :> v) @@ m
EmptyMap == << >>

----------------------------------------------------------------------------
(* command_tree.rs *)

\* Command::new
NewCommand(name, description) ==
    [ name        |-> name,
      description |-> description,
      aliases     |-> << >>,
      usage       |-> None,
      flags       |-> << >>,
      subcommands |-> EmptyMap,
      group       |-> None ]

\* CommandGroup { name, commands }
NewGroup(name, commands) == [ name |-> name, commands |-> commands ]

\* CommandTree::new
NewTree(root) == [ root |-> root, global_flags |-> << >>, groups |-> << >> ]

----------------------------------------------------------------------------
(* parse_command_line *)

\* the listing grammar, were the line cut at its first whitespace
parse_command_lineFirstWord(l) ==
    LET trimmed == Trim(l)
        words == SplitWhitespace(trimmed)
        name == words[1]
        description == Trim(From(trimmed, Len(name) + 1))
    IN  IF trimmed = "" THEN None
        ELSE IF name = "" \/ StartsWith(name, "-") THEN None
        ELSE Some(NewCommand(name, description))

\* the listing grammar without its guard against a flag line
parse_command_lineUnguarded(l) ==
    LET trimmed == Trim(l)
        parts == SplitN2(trimmed, "  ")
        name == Trim(parts[1])
        description == IF Len(parts) > 1 THEN Trim(parts[2]) ELSE ""
    IN  IF trimmed = "" THEN None
        ELSE Some(NewCommand(name, description))

parse_command_line(l) ==
    LET trimmed == Trim(l)
        parts == SplitN2(trimmed, "  ")
        name == Trim(parts[1])
        description == IF Len(parts) > 1 THEN Trim(parts[2]) ELSE ""
    IN  IF trimmed = "" THEN None
        ELSE IF name = "" \/ StartsWith(name, "-") THEN None
        ELSE Some(NewCommand(name, description))

----------------------------------------------------------------------------
(* split_flag_description: positions are 1-based, so position p is byte     *)
(* index p - 1 of the source and Len(s) + 1 is its len                      *)

ValueTypes ==
    { "string", "strings", "int", "int32", "int64", "float", "float64",
      "duration", "uint", "count" }

is_value_type(s) == s \in ValueTypes

\* while i < len && bytes[i] == b' ' { i += 1 }
RECURSIVE SkipSpaces(_, _)
SkipSpaces(s, i) ==
    IF i <= Len(s) /\ Chr(s, i) = " " THEN SkipSpaces(s, i + 1) ELSE i

\* while i < len && bytes[i] != b' ' { i += 1 }
RECURSIVE SkipToken(_, _)
SkipToken(s, i) ==
    IF i <= Len(s) /\ Chr(s, i) # " " THEN SkipToken(s, i + 1) ELSE i

\* the token walk, from position i with found_flag as given
RECURSIVE TokenWalk(_, _, _)
TokenWalk(s, i, found_flag) ==
    IF i > Len(s) THEN << s, "" >>
    ELSE
        LET token_end == SkipToken(s, i)
            token == SubSeq(s, i, token_end - 1)
            found == found_flag \/ Contains(token, "-")
            space_start == token_end
            after == SkipSpaces(s, space_start)
            spaces == after - space_start
            j == SkipToken(s, after)
            next_token == SubSeq(s, after, j - 1)
        IN  IF found /\ spaces >= 2 /\ after <= Len(s)
            THEN IF is_value_type(next_token)
                 THEN << Upto(s, j - 1), From(s, SkipSpaces(s, j)) >>
                 ELSE << Upto(s, space_start - 1), From(s, after) >>
            ELSE TokenWalk(s, after, found)

\* the split, were the gap left on the description
split_flag_descriptionKeepsGap(l) ==
    LET flag_part == TokenWalk(l, SkipSpaces(l, 1), FALSE)[1]
    IN  << flag_part, From(l, Len(flag_part) + 1) >>

split_flag_description(l) == TokenWalk(l, SkipSpaces(l, 1), FALSE)

----------------------------------------------------------------------------
(* parse_flag_line *)

\* the loop, were a value type taken only from the closed set
RECURSIVE FlagTokensKeywordOnly(_, _)
FlagTokensKeywordOnly(tokens, st) ==
    IF Len(tokens) = 0 THEN st
    ELSE
        LET tok == TrimEndMatches(tokens[1], ",")
            nxt == IF StartsWith(tok, "--")
                   THEN [st EXCEPT !.long = TrimStartMatches(tok, "-")]
                   ELSE IF StartsWith(tok, "-") /\ Len(tok) = 2
                   THEN [st EXCEPT !.short = Some(Chr(tok, 2))]
                   ELSE IF is_value_type(tok)
                   THEN [st EXCEPT !.value_type = Some(tok)]
                   ELSE st
        IN  FlagTokensKeywordOnly(Tail(tokens), nxt)

\* the loop over the tokens of the flag part: st is the short form, the long
\* name and the value type found so far
RECURSIVE FlagTokens(_, _)
FlagTokens(tokens, st) ==
    IF Len(tokens) = 0 THEN st
    ELSE
        LET tok == TrimEndMatches(tokens[1], ",")
            nxt == IF StartsWith(tok, "--")
                   THEN [st EXCEPT !.long = TrimStartMatches(tok, "-")]
                   ELSE IF StartsWith(tok, "-") /\ Len(tok) = 2
                   THEN [st EXCEPT !.short = Some(Chr(tok, 2))]
                   ELSE IF tok # "" /\ ~StartsWith(tok, "-")
                   THEN [st EXCEPT !.value_type = Some(tok)]
                   ELSE st
        IN  FlagTokens(Tail(tokens), nxt)

\* the extraction without the test for an empty value
ExtractDefaultKeepsEmpty(description) ==
    LET start == Find(description, "(default")
        rest == From(description, start)
        end == Find(rest, ")")
        default_str == Upto(rest, end)
        val == TrimMatches(
                 Trim(TrimEndMatches(
                   Trim(TrimStartMatches(
                     TrimStartMatches(default_str, "(default"), ":")), ")")),
                 "\"")
    IN  IF start = 0 THEN None
        ELSE IF end = 0 THEN None
        ELSE Some(val)

\* the default value of a description: (default: "value") or (default "value")
ExtractDefault(description) ==
    LET start == Find(description, "(default")
        rest == From(description, start)
        end == Find(rest, ")")
        default_str == Upto(rest, end)
        val == TrimMatches(
                 Trim(TrimEndMatches(
                   Trim(TrimStartMatches(
                     TrimStartMatches(default_str, "(default"), ":")), ")")),
                 "\"")
    IN  IF start = 0 THEN None
        ELSE IF end = 0 THEN None
        ELSE IF val = "" THEN None
        ELSE Some(val)

parse_flag_line(l) ==
    LET trimmed == Trim(l)
        split == split_flag_description(trimmed)
        flag_part == split[1]
        desc_part == split[2]
        st == FlagTokens(SplitWhitespace(flag_part),
                         [ short |-> None, long |-> "", value_type |-> None ])
    IN  IF trimmed = "" \/ ~Contains(trimmed, "-") THEN None
        ELSE IF st.long = "" THEN None
        ELSE Some([ long        |-> st.long,
                    short       |-> st.short,
                    description |-> desc_part,
                    value_type  |-> st.value_type,
                    default     |-> ExtractDefault(desc_part) ])

----------------------------------------------------------------------------
(* parse_help_output *)

\* enum Section
Preamble == << "Preamble" >>
Usage == << "Usage" >>
Aliases == << "Aliases" >>
Commands(group) == << "Commands", group >>
Flags == << "Flags" >>
GlobalFlags == << "GlobalFlags" >>

\* the accumulators before the first line
AccInit ==
    [ description_lines  |-> << >>,
      usage              |-> None,
      aliases            |-> << >>,
      flags              |-> << >>,
      global_flags       |-> << >>,
      subcommands        |-> EmptyMap,
      groups             |-> << >>,
      current_group_name |-> None,
      current_group_cmds |-> << >>,
      section            |-> Preamble ]

\* a section header: not indented and ending with ':'
IsHeader(l) == ~StartsWith(l, " ") /\ ~StartsWith(l, "\t") /\ EndsWith(l, ":")

\* current_group_name.take() and the push of a non-empty group
FlushGroup(a) ==
    IF IsSome(a.current_group_name)
    THEN IF a.current_group_cmds # << >>
         THEN [a EXCEPT
                 !.groups = Append(@, NewGroup(Unwrap(a.current_group_name),
                                               a.current_group_cmds)),
                 !.current_group_cmds = << >>,
                 !.current_group_name = None]
         ELSE [a EXCEPT !.current_group_name = None]
    ELSE a

\* the header arm of the loop body
HeaderLine(a, l) ==
    LET f == FlushGroup(a)
        header == Trim(TrimEndMatches(l, ":"))
    IN  IF header = "Usage" THEN [f EXCEPT !.section = Usage]
        ELSE IF header = "Aliases" THEN [f EXCEPT !.section = Aliases]
        ELSE IF header = "Flags" THEN [f EXCEPT !.section = Flags]
        ELSE IF header = "Global Flags" THEN [f EXCEPT !.section = GlobalFlags]
        ELSE [f EXCEPT !.current_group_name = Some(header),
                       !.section = Commands(header)]

\* the candidate aliases of one line of the Aliases section
RECURSIVE AliasTokens(_)
AliasTokens(pieces) ==
    IF Len(pieces) = 0 THEN << >>
    ELSE LET a == Trim(pieces[1])
         IN  (IF a # "" THEN << a >> ELSE << >>) \o AliasTokens(Tail(pieces))

\* the Commands arm, were a rejected line kept in the open group
CommandsLineKeepsRejected(a, trimmed) ==
    LET cmd == parse_command_line(trimmed)
        c == [Unwrap(cmd) EXCEPT !.group = Some(a.section[2])]
    IN  IF IsSome(cmd)
        THEN [a EXCEPT !.current_group_cmds = Append(@, c.name),
                       !.subcommands = Insert(@, c.name, c)]
        ELSE [a EXCEPT !.current_group_cmds = Append(@, trimmed)]

\* the Commands arm: tag the stub, record it under its name and in the group
CommandsLine(a, trimmed) ==
    LET cmd == parse_command_line(trimmed)
        c == [Unwrap(cmd) EXCEPT !.group = Some(a.section[2])]
    IN  IF IsSome(cmd)
        THEN [a EXCEPT !.current_group_cmds = Append(@, c.name),
                       !.subcommands = Insert(@, c.name, c)]
        ELSE a

\* the Flags arm
FlagsLine(a, trimmed) ==
    LET f == parse_flag_line(trimmed)
    IN  IF IsSome(f) THEN [a EXCEPT !.flags = Append(@, Unwrap(f))] ELSE a

\* the GlobalFlags arm
GlobalFlagsLine(a, trimmed) ==
    LET f == parse_flag_line(trimmed)
    IN  IF IsSome(f) THEN [a EXCEPT !.global_flags = Append(@, Unwrap(f))] ELSE a

\* the match, were every line of the Usage section kept in turn
ContentLineLastUsage(a, trimmed) ==
    CASE a.section = Preamble ->
           IF ~StartsWith(trimmed, "Use \"")
           THEN [a EXCEPT !.description_lines = Append(@, trimmed)]
           ELSE a
      [] a.section = Usage -> [a EXCEPT !.usage = Some(trimmed)]
      [] a.section = Aliases ->
           [a EXCEPT !.aliases = @ \o AliasTokens(Split(trimmed, ","))]
      [] a.section = Flags -> FlagsLine(a, trimmed)
      [] a.section = GlobalFlags -> GlobalFlagsLine(a, trimmed)
      [] OTHER -> CommandsLine(a, trimmed)

\* match &section, for a line that is neither a header nor blank
ContentLine(a, trimmed) ==
    CASE a.section = Preamble ->
           IF ~StartsWith(trimmed, "Use \"")
           THEN [a EXCEPT !.description_lines = Append(@, trimmed)]
           ELSE a
      [] a.section = Usage ->
           IF a.usage = None THEN [a EXCEPT !.usage = Some(trimmed)] ELSE a
      [] a.section = Aliases ->
           [a EXCEPT !.aliases = @ \o AliasTokens(Split(trimmed, ","))]
      [] a.section = Flags -> FlagsLine(a, trimmed)
      [] a.section = GlobalFlags -> GlobalFlagsLine(a, trimmed)
      [] OTHER -> CommandsLine(a, trimmed)

\* one iteration of `for line in text.lines()`
ParseLine(a, l) ==
    IF IsHeader(l) THEN HeaderLine(a, l)
    ELSE IF Trim(l) = "" THEN a
    ELSE ContentLine(a, Trim(l))

\* the rule, were a single token kept
DropOwnNameKeepsSingle(aliases) ==
    IF Len(aliases) > 1 THEN Tail(aliases) ELSE aliases

\* "We store only the extras as aliases"
DropOwnName(aliases) == IF Len(aliases) > 1 THEN Tail(aliases) ELSE << >>

\* the result, were the group open at the end of the text not flushed
ParseFinishNoFlush(a) ==
    LET cmd == [NewCommand("", Join(a.description_lines)) EXCEPT
                  !.usage = a.usage,
                  !.aliases = DropOwnName(a.aliases),
                  !.flags = a.flags,
                  !.subcommands = a.subcommands]
    IN  << cmd, a.global_flags, a.groups >>

\* after the loop: flush the final group and assemble the result
ParseFinish(a) ==
    LET f == FlushGroup(a)
        cmd == [NewCommand("", Join(f.description_lines)) EXCEPT
                  !.usage = f.usage,
                  !.aliases = DropOwnName(f.aliases),
                  !.flags = f.flags,
                  !.subcommands = f.subcommands]
    IN  << cmd, f.global_flags, f.groups >>

RECURSIVE ParseLines(_, _)
ParseLines(a, lines) ==
    IF Len(lines) = 0 THEN a
    ELSE ParseLines(ParseLine(a, lines[1]), Tail(lines))

parse_help_output(lines) == ParseFinish(ParseLines(AccInit, lines))

----------------------------------------------------------------------------
(* run_help: the help text of a command path, or an io::Error              *)

\* Result<T, io::Error>
Ok(x) == [ ok |-> TRUE, val |-> x ]
Err == [ ok |-> FALSE, err |-> "io::Error" ]

\* the number of help texts the invoked binary can print
NumTexts == 6

\* the help texts of the invoked binary, in the style of the BD_HELP,
\* CREATE_HELP and EPIC_HELP fixtures
HelpText(i) ==
    CASE i = 1 -> << "Tool", "", "Core:", "  b  second", "  a  first", "",
                     "Flags:", "  -v, --all  every" >>
      [] i = 2 -> << "Inner", "", "Usage:", "  bd a", "", "Aliases:", "  b, a",
                     "", "More:", "  a  nested", "", "Flags:", "  --n int  count",
                     "", "Global Flags:", "  --all  every" >>
      [] i = 3 -> << "Leaf", "", "Usage:", "  bd leaf", "", "Aliases:",
                     "  a, c", "", "Flags:", "  --y" >>
      [] i = 4 -> << >>
      [] i = 5 -> << "Global Flags:", "  --g string  global" >>
      [] i = 6 -> << "Core:", "  a  one", "More:", "  a  two", "  c" >>
      [] i = 7 -> << "Usage:", "  bd", "", "Flags:", "  --n", "  --n int" >>
      [] OTHER -> << "Usage:" >>

HelpResults == { Err } \cup { Ok(HelpText(i)) : i \in 1..NumTexts }

\* the entry point handed to build_command_tree
binary == "bd"

----------------------------------------------------------------------------
(* build_command_tree *)

\* the merge, were the name taken from the command's own text too
MergeDepth1AndName(node, p) ==
    [node EXCEPT !.flags = p.flags, !.aliases = p.aliases, !.usage = p.usage,
                 !.name = p.name]

\* the merge, were the description taken from the command's own text too
MergeDepth1AndDescription(node, p) ==
    [node EXCEPT !.flags = p.flags, !.aliases = p.aliases, !.usage = p.usage,
                 !.description = p.description]

\* entry.flags = parsed.flags; entry.aliases = ...; entry.usage = ...
MergeDepth1(node, p) ==
    [node EXCEPT !.flags = p.flags, !.aliases = p.aliases, !.usage = p.usage]

\* the merge, were each adopted stub given the listing it came from
MergeDepth2Nested(sub_cmd, p2) ==
    [sub_cmd EXCEPT !.flags = p2.flags, !.aliases = p2.aliases,
                    !.usage = p2.usage,
                    !.subcommands =
                        [k \in DOMAIN p2.subcommands |->
                            [p2.subcommands[k] EXCEPT
                                !.subcommands = p2.subcommands]]]

\* the same for sub_cmd, which also takes parsed2.subcommands
MergeDepth2(sub_cmd, p2) ==
    [sub_cmd EXCEPT !.flags = p2.flags, !.aliases = p2.aliases,
                    !.usage = p2.usage, !.subcommands = p2.subcommands]

\* the resolution without the fallback to the root's flags
ResolveGlobalFlagsNoFallback(gf, root) == gf

\* tree.global_flags: the root's flags when there was no Global Flags section
ResolveGlobalFlags(gf, root) == IF gf = << >> THEN root.flags ELSE gf

\* the tree, were the groups of the root help text left out
FinalTreeWithoutGroups(root, gf, gs) ==
    [NewTree(root) EXCEPT !.global_flags = ResolveGlobalFlags(gf, root)]

\* the tree returned at the end
FinalTree(root, gf, gs) ==
    [NewTree(root) EXCEPT !.global_flags = ResolveGlobalFlags(gf, root),
                          !.groups = gs]

\* the iteration, were it to stop after the first entry
IntoIterFirstOnly(m, keys) ==
    IF Len(keys) = 0 THEN << >> ELSE << << keys[1], m[keys[1]] >> >>

\* parsed.subcommands.into_iter(): (sub_name, sub_cmd) in key order
RECURSIVE IntoIter(_, _)
IntoIter(m, keys) ==
    IF Len(keys) = 0 THEN << >>
    ELSE << << keys[1], m[keys[1]] >> >> \o IntoIter(m, Tail(keys))

\* the invocation, were a depth-2 command run without its parent
CallWithoutParent(command, r) ==
    [ command |-> IF Len(command) = 3 THEN << command[1], command[3] >>
                  ELSE command,
      result  |-> r ]

\* run_help(&[binary, ...]) and what it returned
Call(command, r) == [ command |-> command, result |-> r ]

BuildInit ==
    /\ pc = "root"
    /\ root_cmd = None
    /\ global_flags = << >>
    /\ groups = << >>
    /\ names = << >>
    /\ entry = None
    /\ pending = << >>
    /\ tree = None
    /\ calls = << >>

\* the root step, were a failed invocation read as an empty help text
RootOutcomeLenient(r) ==
    LET p == parse_help_output(IF r.ok THEN r.val ELSE << >>)
    IN  /\ root_cmd' = [p[1] EXCEPT !.name = binary]
        /\ global_flags' = p[2]
        /\ groups' = p[3]
        /\ names' = SortedKeys(DOMAIN p[1].subcommands)
        /\ pc' = "depth1"
        /\ UNCHANGED tree

\* the `?` on the root invocation, then the parse and the collected keys
RootOutcome(r) ==
    IF ~r.ok
    THEN /\ tree' = Some(Err)
         /\ pc' = "done"
         /\ UNCHANGED << root_cmd, global_flags, groups, names >>
    ELSE LET p == parse_help_output(r.val)
         IN  /\ root_cmd' = [p[1] EXCEPT !.name = binary]
             /\ global_flags' = p[2]
             /\ groups' = p[3]
             /\ names' = SortedKeys(DOMAIN p[1].subcommands)
             /\ pc' = "depth1"
             /\ UNCHANGED tree

\* let help_text = run_help(&[binary])?; and what follows it
RootHelp ==
    /\ pc = "root"
    /\ \E r \in HelpResults :
        /\ calls' = Append(calls, Call(<< binary >>, r))
        /\ RootOutcome(r)
    /\ UNCHANGED << entry, pending >>
    /\ UNCHANGED << parseVars, flagVars >>

\* one iteration of `for name in subcommand_names`, up to the inner loop
Depth1Help ==
    /\ pc = "depth1"
    /\ names # << >>
    /\ LET name == Head(names)
       IN  \E r \in HelpResults :
            /\ calls' = Append(calls, Call(<< binary, name >>, r))
            /\ names' = Tail(names)
            /\ IF ~r.ok
               THEN UNCHANGED << root_cmd, entry, pending, pc >>
               ELSE LET p == parse_help_output(r.val)[1]
                    IN  /\ root_cmd' = [root_cmd EXCEPT !.subcommands[name] =
                                           MergeDepth1(@, p)]
                        /\ IF p.subcommands # EmptyMap
                           THEN /\ entry' = Some(name)
                                /\ pending' = IntoIter(p.subcommands,
                                                SortedKeys(DOMAIN p.subcommands))
                                /\ pc' = "depth2"
                           ELSE UNCHANGED << entry, pending, pc >>
    /\ UNCHANGED << global_flags, groups, tree >>
    /\ UNCHANGED << parseVars, flagVars >>

\* sub_cmd as inserted, were a failed node built anew from its name
Depth2NodeForgetful(sub_cmd, r) ==
    IF r.ok THEN MergeDepth2(sub_cmd, parse_help_output(r.val)[1])
    ELSE NewCommand(sub_cmd.name, "")

\* sub_cmd as inserted: merged when its run_help succeeded, the stub otherwise
Depth2Node(sub_cmd, r) ==
    IF r.ok THEN MergeDepth2(sub_cmd, parse_help_output(r.val)[1]) ELSE sub_cmd

\* one iteration of `for (sub_name, mut sub_cmd) in parsed.subcommands`
Depth2Help ==
    /\ pc = "depth2"
    /\ pending # << >>
    /\ LET name == Unwrap(entry)
           sub_name == Head(pending)[1]
           sub_cmd == Head(pending)[2]
       IN  \E r \in HelpResults :
            /\ calls' = Append(calls, Call(<< binary, name, sub_name >>, r))
            /\ root_cmd' = [root_cmd EXCEPT
                              !.subcommands[name].subcommands =
                                  Insert(@, sub_name, Depth2Node(sub_cmd, r))]
    /\ pending' = Tail(pending)
    /\ IF Tail(pending) = << >>
       THEN pc' = "depth1" /\ entry' = None
       ELSE UNCHANGED << pc, entry >>
    /\ UNCHANGED << global_flags, groups, names, tree >>
    /\ UNCHANGED << parseVars, flagVars >>

\* after the loops: resolve the global flags and return Ok(tree)
Return ==
    /\ pc = "depth1"
    /\ names = << >>
    /\ tree' = Some(Ok(FinalTree(root_cmd, global_flags, groups)))
    /\ pc' = "done"
    /\ UNCHANGED << root_cmd, global_flags, groups, names, entry, pending, calls >>
    /\ UNCHANGED << parseVars, flagVars >>

----------------------------------------------------------------------------
(* parse_help_output as the loop runs: the lines arrive one at a time       *)

\* the longest text read
MaxLines == 4

\* the lines a help text is made of
LinePool ==
    { "", "Usage:", "Aliases:", "Flags:", "Global Flags:", "Core:", "More:",
      "  a  first", "  b", "  a,, b", "  -v, --all int  n (default 1)",
      "  --all", "  -- n", "Use \"bd --help\"" }

ParseInit ==
    /\ text = << >>
    /\ acc = AccInit
    /\ parsed = None

\* the loop body on the next line of the text
ReadLine ==
    /\ pc = "idle"
    /\ parsed = None
    /\ Len(text) < MaxLines
    /\ \E l \in LinePool :
        /\ text' = Append(text, l)
        /\ acc' = ParseLine(acc, l)
    /\ UNCHANGED parsed
    /\ UNCHANGED << buildVars, flagVars >>

\* end of the text: the function returns
EndOfText ==
    /\ pc = "idle"
    /\ parsed = None
    /\ parsed' = Some(ParseFinish(acc))
    /\ UNCHANGED << text, acc >>
    /\ UNCHANGED << buildVars, flagVars >>

----------------------------------------------------------------------------
(* parse_flag_line on one line                                              *)

\* the most tokens on a flag line
MaxTokens == 3

\* the tokens of a flag line and the gaps between them
FlagWords ==
    { "--all", "-a,", "--", "int", "file", "n", "(default", "1)", "(default)",
      "\"x\")" }
Gaps == { " ", "  " }

RECURSIVE LinesOf(_)
LinesOf(n) ==
    IF n = 1 THEN FlagWords
    ELSE LinesOf(n - 1) \cup
         { l \o g \o w : l \in LinesOf(n - 1), g \in Gaps, w \in FlagWords }

FlagLines == { "  " \o l : l \in LinesOf(MaxTokens) }

FlagInit ==
    /\ line \in FlagLines
    /\ flag = None

ParseFlagLine ==
    /\ line # ""
    /\ flag = None
    /\ flag' = Some(parse_flag_line(line))
    /\ UNCHANGED line
    /\ UNCHANGED << buildVars, parseVars >>

----------------------------------------------------------------------------
(* the specifications *)

\* a function that is not running
BuildIdle ==
    /\ pc = "idle"
    /\ root_cmd = None
    /\ global_flags = << >>
    /\ groups = << >>
    /\ names = << >>
    /\ entry = None
    /\ pending = << >>
    /\ tree = None
    /\ calls = << >>
ParseIdle == text = << >> /\ acc = AccInit /\ parsed = None
FlagIdle == line = "" /\ flag = None

\* build_command_tree
Init == BuildInit /\ ParseIdle /\ FlagIdle
Next == RootHelp \/ Depth1Help \/ Depth2Help \/ Return
Spec == Init /\ [][Next]_vars

\* parse_help_output
InitParse == BuildIdle /\ ParseInit /\ FlagIdle
NextParse == ReadLine \/ EndOfText
SpecParse == InitParse /\ [][NextParse]_vars

\* parse_flag_line
InitFlag == BuildIdle /\ ParseIdle /\ FlagInit
NextFlag == ParseFlagLine
SpecFlag == InitFlag /\ [][NextFlag]_vars

----------------------------------------------------------------------------
(* Properties of parse_help_output, under SpecParse                         *)

Returned == parsed # None
ParsedCmd == Unwrap(parsed)[1]
ParsedGlobals == Unwrap(parsed)[2]
ParsedGroups == Unwrap(parsed)[3]

Range(q) == { q[i] : i \in 1..Len(q) }

\* C1: group/subcommand agreement.  In every result, every name listed in a
\* returned group is a key of the subcommands map, and the subcommand stored
\* under it carries that group's name.
C1_GroupSubcommandAgreement ==
    Returned =>
        \A i \in 1..Len(ParsedGroups) :
            \A n \in Range(ParsedGroups[i].commands) :
                /\ n \in DOMAIN ParsedCmd.subcommands
                /\ ParsedCmd.subcommands[n].group = Some(ParsedGroups[i].name)

LongNamesDistinct(fs) ==
    \A i, j \in 1..Len(fs) : fs[i].long = fs[j].long => i = j

\* C7: flag name uniqueness.  In every result, the long names of the local
\* flag list are pairwise distinct, and so are those of the global flag list.
C7_FlagNamesUnique ==
    Returned =>
        /\ LongNamesDistinct(ParsedCmd.flags)
        /\ LongNamesDistinct(ParsedGlobals)

----------------------------------------------------------------------------
(* Properties of parse_flag_line, under SpecFlag                            *)

Called == flag # None
Accepted == Called /\ IsSome(Unwrap(flag))
TheFlag == Unwrap(Unwrap(flag))

\* the flag segment of the line and its whitespace-separated words
FlagSegment == split_flag_description(Trim(line))[1]
SegmentWords == SplitWhitespace(FlagSegment)
LastWord == SegmentWords[Len(SegmentWords)]

\* a bare word: what is left of a token without its trailing commas is not
\* empty and does not start with a dash
IsBare(w) ==
    TrimEndMatches(w, ",") # "" /\ ~StartsWith(TrimEndMatches(w, ","), "-")
BareWords == SelectSeq(SegmentWords, IsBare)

\* C10: value type against boolean, as stated.  An accepted flag has
\* value_type = Some(k) when its flag segment ends with a recognized keyword
\* k, and value_type = None when it does not.
C10_ValueTypeOnlyKeyword ==
    Accepted =>
        IF is_value_type(LastWord)
        THEN TheFlag.value_type = Some(LastWord)
        ELSE TheFlag.value_type = None

\* C10, amended: a flag segment ending with a recognized keyword k yields
\* value_type = Some(k); in general value_type is the last bare word of the
\* flag segment, recognized or not, and it is None exactly when the segment
\* has no bare word.
C10_ValueTypeLastBareWord ==
    Accepted =>
        /\ is_value_type(LastWord) => TheFlag.value_type = Some(LastWord)
        /\ BareWords = << >> <=> TheFlag.value_type = None
        /\ BareWords # << >> =>
              TheFlag.value_type =
                  Some(TrimEndMatches(BareWords[Len(BareWords)], ","))

\* an accepted flag whose segment ends with a word outside the closed set
C10_Witness ==
    /\ Accepted
    /\ LastWord = "file"
    /\ TheFlag.value_type = Some("file")
    /\ TheFlag.long = "all"

----------------------------------------------------------------------------
(* Properties of build_command_tree, under Spec                             *)

Done == pc = "done"
Built == Done /\ Unwrap(tree).ok
TheTree == Unwrap(tree).val

\* the invocations made for a command path, and the first of them
CallsOf(command) == SelectSeq(calls, LAMBDA c : c.command = command)
ResultOf(command) == CallsOf(command)[1].result
Invoked(command) == CallsOf(command) # << >>
Succeeded(command) == Invoked(command) /\ ResultOf(command).ok
Failed(command) == Invoked(command) /\ ~ResultOf(command).ok

\* parse_help_output on each text run_help can return, evaluated once
ParseTable ==
    [t \in { HelpText(i) : i \in 1..NumTexts } |-> parse_help_output(t)]

\* what parse_help_output makes of the text run_help returned for a path
ParseOf(command) == ParseTable[ResultOf(command).val]

Kids(n) == { n.subcommands[k] : k \in DOMAIN n.subcommands }
Level1 == Kids(TheTree.root)
Level2 == UNION { Kids(n) : n \in Level1 }
Level3 == UNION { Kids(n) : n \in Level2 }
Level4 == UNION { Kids(n) : n \in Level3 }

\* C2: depth cap, as stated.  In every returned tree every node at depth 2
\* below the root has an empty subcommands map.
C2_NoNodeAtDepth3 ==
    Built => \A n \in Level2 : n.subcommands = EmptyMap

\* C2, amended: a returned tree has at most four levels.  A node at depth 2
\* carries the stubs its own help text lists when its run_help call
\* succeeded and none when it failed; every node at depth 3 has an empty
\* subcommands map, so no node exists at depth 4.
C2_NoNodeAtDepth4 ==
    Built =>
        /\ \A n \in Level3 : n.subcommands = EmptyMap
        /\ Level4 = {}
        /\ \A d1 \in DOMAIN TheTree.root.subcommands :
             \A d2 \in DOMAIN TheTree.root.subcommands[d1].subcommands :
                TheTree.root.subcommands[d1].subcommands[d2].subcommands =
                    IF Succeeded(<< binary, d1, d2 >>)
                    THEN ParseOf(<< binary, d1, d2 >>)[1].subcommands
                    ELSE EmptyMap

\* a returned tree with a node at depth 3
C2_Witness == Built /\ Level3 # {}

IsStub(n) == n.flags = << >> /\ n.aliases = << >> /\ n.usage = None

\* C3: a failure below the root is not fatal.  When the root call succeeded
\* the build returns Ok, and the node of every failed depth-1 or depth-2 path
\* is in its parent's subcommands with the name, description and group of the
\* parent's listing and with no flags, no aliases and no usage.
C3_NonRootFailureKeepsStub ==
    (Done /\ Succeeded(<< binary >>)) =>
        /\ Unwrap(tree).ok
        /\ \A i \in 1..Len(calls) :
            LET c == calls[i].command
                parent == SubSeq(c, 1, Len(c) - 1)
                listed == ParseOf(parent)[1].subcommands
                among == IF Len(c) = 2 THEN TheTree.root.subcommands
                         ELSE TheTree.root.subcommands[c[2]].subcommands
                name == c[Len(c)]
            IN  (Len(c) > 1 /\ ~calls[i].result.ok) =>
                    /\ name \in DOMAIN among
                    /\ name \in DOMAIN listed
                    /\ among[name].name = name
                    /\ among[name].description = listed[name].description
                    /\ among[name].group = listed[name].group
                    /\ IsSome(among[name].group)
                    /\ IsStub(among[name])

\* a returned tree after a failure at depth 1 and a failure at depth 2
C3_Witness ==
    /\ Built
    /\ \E i, j \in 1..Len(calls) :
        /\ Len(calls[i].command) = 2 /\ ~calls[i].result.ok
        /\ Len(calls[j].command) = 3 /\ ~calls[j].result.ok
        /\ TheTree.root.subcommands[calls[i].command[2]].description # ""

\* C4: a failure at the root is fatal.  When run_help fails for the root
\* path the build returns that error, assembles no tree and makes no other
\* run_help invocation.
C4_RootFailureIsFatal ==
    Failed(<< binary >>) =>
        /\ Done
        /\ tree = Some(Err)
        /\ root_cmd = None
        /\ Len(calls) = 1

\* the build has returned the error of the root invocation
C4_Witness == Done /\ Failed(<< binary >>) /\ tree = Some(Err)

\* the names of the listing lines of a text, in the order of their first
\* appearance
RECURSIVE Listed(_)
Listed(gs) == IF gs = << >> THEN << >> ELSE gs[1].commands \o Listed(Tail(gs))

RECURSIVE Dedup(_)
Dedup(q) ==
    IF q = << >> THEN << >>
    ELSE LET r == Dedup(SubSeq(q, 1, Len(q) - 1))
         IN  IF q[Len(q)] \in Range(r) THEN r ELSE Append(r, q[Len(q)])

DiscoveryOrder(command) == Dedup(Listed(ParseOf(command)[3]))

\* the names invoked below a path, in the order of the invocations
RECURSIVE LastNames(_)
LastNames(cs) ==
    IF cs = << >> THEN << >>
    ELSE << cs[1].command[Len(cs[1].command)] >> \o LastNames(Tail(cs))

InvokedBelow(parent) ==
    LastNames(SelectSeq(calls, LAMBDA c :
        /\ Len(c.command) = Len(parent) + 1
        /\ SubSeq(c.command, 1, Len(parent)) = parent))

Ascending(q) == \A i, j \in 1..Len(q) : i < j => StrLess(q[i], q[j])

\* C5: invocation order, as stated.  The root is invoked first, the depth-1
\* names in the order of their listing lines in the root text and the
\* depth-2 names in the order of their listing lines in the parent's text.
C5_DiscoveryOrder ==
    Built =>
        /\ calls[1].command = << binary >>
        /\ InvokedBelow(<< binary >>) = DiscoveryOrder(<< binary >>)
        /\ \A d1 \in Range(InvokedBelow(<< binary >>)) :
             Succeeded(<< binary, d1 >>) =>
                InvokedBelow(<< binary, d1 >>) = DiscoveryOrder(<< binary, d1 >>)

\* C5, amended: the root is invoked first; the depth-1 names are invoked in
\* ascending order of name (the key order of the subcommands map), and the
\* depth-2 names of a parent in ascending order of name, whatever the order
\* of the listing lines.
C5_KeyOrder ==
    calls # << >> =>
        /\ calls[1].command = << binary >>
        /\ \A i \in 2..Len(calls) : Len(calls[i].command) \in {2, 3}
        /\ Ascending(InvokedBelow(<< binary >>))
        /\ \A d1 \in Range(InvokedBelow(<< binary >>)) :
             Ascending(InvokedBelow(<< binary, d1 >>))
        /\ Built =>
             /\ Range(InvokedBelow(<< binary >>)) =
                    Range(DiscoveryOrder(<< binary >>))
             /\ \A d1 \in Range(InvokedBelow(<< binary >>)) :
                  Succeeded(<< binary, d1 >>) =>
                     Range(InvokedBelow(<< binary, d1 >>)) =
                         Range(DiscoveryOrder(<< binary, d1 >>))

\* a build whose root text lists b before a and which invoked a before b
C5_Witness ==
    /\ Built
    /\ DiscoveryOrder(<< binary >>) = << "b", "a" >>
    /\ InvokedBelow(<< binary >>) = << "a", "b" >>

\* C6: alias invariant.  In every returned tree no node's aliases contain
\* the node's own name.
C6_AliasesExcludeOwnName ==
    Built =>
        \A n \in {TheTree.root} \cup Level1 \cup Level2 \cup Level3 :
            n.name \notin Range(n.aliases)

\* C8: global-flags resolution.  tree.global_flags is the Global Flags
\* section of the root text when that is not empty and root.flags, the Flags
\* section of the root text, otherwise; no other text contributes.
C8_GlobalFlagsFromRoot ==
    Built =>
        LET p == ParseOf(<< binary >>)
        IN  /\ TheTree.root.flags = p[1].flags
            /\ TheTree.global_flags =
                  IF p[2] # << >> THEN p[2] ELSE TheTree.root.flags

\* a tree that fell back to the root's flags while a depth-1 text had a
\* Global Flags section of its own
C8_Witness ==
    /\ Built
    /\ ParseOf(<< binary >>)[2] = << >>
    /\ TheTree.global_flags # << >>
    /\ TheTree.global_flags = TheTree.root.flags
    /\ \E d1 \in DOMAIN TheTree.root.subcommands :
        /\ Succeeded(<< binary, d1 >>)
        /\ ParseOf(<< binary, d1 >>)[2] # << >>
        /\ ParseOf(<< binary, d1 >>)[2] # TheTree.global_flags

\* C9: the depth-1 merge frame.  A successful depth-1 invocation overwrites
\* the node's flags, aliases and usage with the parsed ones; the filling of
\* its subcommands changes only that map.  The node's name, description and
\* group stay those of the root's listing, no sibling changes and the root's
\* own fields stay.
C9_Depth1MergeFrame ==
    [][ (pc \in {"depth1", "depth2"} /\ Len(calls') = Len(calls) + 1) =>
          LET c == calls'[Len(calls')]
              name == c.command[2]
              old == root_cmd.subcommands[name]
              new == root_cmd'.subcommands[name]
              p == parse_help_output(c.result.val)[1]
          IN  /\ DOMAIN root_cmd'.subcommands = DOMAIN root_cmd.subcommands
              /\ \A k \in DOMAIN root_cmd.subcommands \ {name} :
                    root_cmd'.subcommands[k] = root_cmd.subcommands[k]
              /\ [root_cmd' EXCEPT !.subcommands = EmptyMap] =
                    [root_cmd EXCEPT !.subcommands = EmptyMap]
              /\ new.name = old.name
              /\ new.description = old.description
              /\ new.group = old.group
              /\ (pc = "depth1" /\ c.result.ok) =>
                    /\ new.flags = p.flags
                    /\ new.aliases = p.aliases
                    /\ new.usage = p.usage
                    /\ new.subcommands = old.subcommands
              /\ (pc = "depth1" /\ ~c.result.ok) => new = old
              /\ pc = "depth2" =>
                    [new EXCEPT !.subcommands = EmptyMap] =
                        [old EXCEPT !.subcommands = EmptyMap]
      ]_vars

\* a merged depth-1 node whose own help text carries another description
C9_Witness ==
    /\ root_cmd # None
    /\ \E d1 \in DOMAIN root_cmd.subcommands :
        /\ Succeeded(<< binary, d1 >>)
        /\ ParseOf(<< binary, d1 >>)[1].description # ""
        /\ root_cmd.subcommands[d1].description # ""
        /\ root_cmd.subcommands[d1].description #
              ParseOf(<< binary, d1 >>)[1].description
        /\ root_cmd.subcommands[d1].usage # None
        /\ root_cmd.subcommands[d1].subcommands # EmptyMap

----------------------------------------------------------------------------
(* More properties of parse_flag_line, under SpecFlag                       *)

DescriptionSegment == split_flag_description(Trim(line))[2]

\* the annotation of a description: from "(default" to the next ")"
Annotation(d) ==
    LET rest == From(d, Find(d, "(default"))
    IN  Upto(rest, Find(rest, ")"))

\* C11: default extraction.  A returned flag has a default only if its
\* description holds "(default" with a ")" after it; the default is then not
\* empty and is a contiguous part of the annotation, and the description is
\* the description segment of the line as it stood, annotation included.
C11_DefaultFromDescription ==
    Accepted =>
        LET d == TheFlag.description
            start == Find(d, "(default")
        IN  /\ d = DescriptionSegment
            /\ EndsWith(Trim(line), d)
            /\ IsSome(TheFlag.default) =>
                 /\ start > 0
                 /\ Find(From(d, start + Len("(default")), ")") > 0
                 /\ Unwrap(TheFlag.default) # ""
                 /\ Find(Annotation(d), Unwrap(TheFlag.default)) > 0
                 /\ Find(d, Annotation(d)) > 0

\* a flag whose default was taken out of a quoted annotation
C11_Witness ==
    /\ Accepted
    /\ TheFlag.default = Some("x")
    /\ TheFlag.description = "(default \"x\")"

----------------------------------------------------------------------------
(* More properties of parse_help_output, under SpecParse                    *)

HeaderName(l) == Trim(TrimEndMatches(l, ":"))
Reserved == { "Usage", "Aliases", "Flags", "Global Flags" }

\* the header that governs line i of the text read so far, 0 in the preamble
LastHeader(i) ==
    LET hs == { h \in 1..(i - 1) : IsHeader(text[h]) }
    IN  IF hs = {} THEN 0 ELSE CHOOSE h \in hs : \A k \in hs : k <= h

\* line i is a content line of a section with the given header name
ContentOf(i, name) ==
    /\ ~IsHeader(text[i])
    /\ Trim(text[i]) # ""
    /\ LastHeader(i) # 0
    /\ HeaderName(text[LastHeader(i)]) = name

\* the alias tokens of the first n lines, in source order
RECURSIVE AliasTokensUpTo(_)
AliasTokensUpTo(n) ==
    IF n = 0 THEN << >>
    ELSE AliasTokensUpTo(n - 1) \o
         (IF ContentOf(n, "Aliases")
          THEN AliasTokens(Split(Trim(text[n]), ","))
          ELSE << >>)

\* C12: alias de-duplication.  With [t1, ..., tk] the trimmed, non-empty,
\* comma-separated tokens of the Aliases sections in source order, the
\* parsed aliases are [t2, ..., tk] when k > 1 and empty when k is 0 or 1.
C12_AliasesDropFirstToken ==
    Returned =>
        LET t == AliasTokensUpTo(Len(text))
        IN  ParsedCmd.aliases = IF Len(t) > 1 THEN Tail(t) ELSE << >>

\* two alias lines, the first with an empty token between its commas
C12_Witness ==
    /\ Returned
    /\ AliasTokensUpTo(Len(text)) = << "a", "b", "b" >>
    /\ ParsedCmd.aliases = << "b", "b" >>

----------------------------------------------------------------------------
(* The sections of the text read so far                                     *)

\* the last line of the section opened by header h
SectionEnd(h) ==
    LET hs == { k \in (h + 1)..Len(text) : IsHeader(text[k]) }
    IN  IF hs = {} THEN Len(text)
        ELSE (CHOOSE k \in hs : \A j \in hs : k <= j) - 1

\* the names of the accepted listing lines among lines i..e, in source order
RECURSIVE AcceptedNames(_, _)
AcceptedNames(i, e) ==
    IF i > e THEN << >>
    ELSE (IF Trim(text[i]) # "" /\ IsSome(parse_command_line(Trim(text[i])))
          THEN << Unwrap(parse_command_line(Trim(text[i]))).name >>
          ELSE << >>) \o AcceptedNames(i + 1, e)

IsCommandHeader(h) == IsHeader(text[h]) /\ HeaderName(text[h]) \notin Reserved

\* one group for each command header from line h on that has accepted names
RECURSIVE GroupsFrom(_)
GroupsFrom(h) ==
    IF h > Len(text) THEN << >>
    ELSE (IF IsCommandHeader(h) /\ AcceptedNames(h + 1, SectionEnd(h)) # << >>
          THEN << NewGroup(HeaderName(text[h]),
                           AcceptedNames(h + 1, SectionEnd(h))) >>
          ELSE << >>) \o GroupsFrom(h + 1)

\* C13: group flushing.  The returned groups are the command sections that
\* took at least one accepted command, one for each such header, in the
\* order of the headers and with the commands in source order; none is
\* empty, and the section open at the end of the text is among them.
C13_GroupsAreTheCommandSections ==
    Returned =>
        /\ ParsedGroups = GroupsFrom(1)
        /\ \A i \in 1..Len(ParsedGroups) : ParsedGroups[i].commands # << >>

\* a group closed by the next header and a group closed by the end of the text
C13_Witness ==
    /\ Returned
    /\ Len(ParsedGroups) = 2
    /\ ParsedGroups[1].name # ParsedGroups[2].name
    /\ ~IsHeader(text[Len(text)])

UsageLines == { i \in 1..Len(text) : ContentOf(i, "Usage") }

\* the trimmed first non-blank line read in a Usage section, if any
FirstUsageLine ==
    IF UsageLines = {} THEN None
    ELSE Some(Trim(text[CHOOSE i \in UsageLines : \A j \in UsageLines : i <= j]))

\* C17: usage is write-once.  After every line the usage is the trimmed
\* first non-blank line read in the Usage state, whatever was read after it,
\* and the returned usage is that line; it is absent when there was none.
C17_UsageIsFirstLine ==
    /\ acc.usage = FirstUsageLine
    /\ Returned => ParsedCmd.usage = FirstUsageLine

\* a second, different line was read in the Usage state and changed nothing
C17_Witness ==
    /\ Returned
    /\ ParsedCmd.usage = Some("b")
    /\ \E i \in UsageLines : Trim(text[i]) # "b"

\* the part of a trimmed listing line before the first run of two or more
\* spaces, its first word, and what follows that run
NamePart(t) == IF Find(t, "  ") = 0 THEN t ELSE Trim(Upto(t, Find(t, "  ") - 1))
FirstWord(t) == SplitWhitespace(t)[1]
Remainder(t) == IF Find(t, "  ") = 0 THEN "" ELSE Trim(From(t, Find(t, "  ") + 2))

\* a step that reads an accepted listing line in a Commands section
ReadsListing ==
    /\ Len(text') = Len(text) + 1
    /\ acc.section[1] = "Commands"
    /\ ~IsHeader(text'[Len(text')])
    /\ IsSome(parse_command_line(text'[Len(text')]))

\* the stub of that step is recorded under the given name
ListingRecordedAs(name) ==
    LET t == Trim(text'[Len(text')])
    IN  /\ name \in DOMAIN acc'.subcommands
        /\ acc'.subcommands[name] =
              [NewCommand(name, Remainder(t)) EXCEPT
                  !.group = Some(acc.section[2])]
        /\ acc'.current_group_cmds = Append(acc.current_group_cmds, name)
        /\ \A k \in DOMAIN acc.subcommands \ {name} :
              k \in DOMAIN acc'.subcommands /\
              acc'.subcommands[k] = acc.subcommands[k]

\* C18: command-listing grammar, as stated.  The stub of an accepted listing
\* line is named by the line's first token, described by the trimmed
\* remainder after the first run of two or more spaces, tagged with the open
\* group, recorded under its name and appended to the group's commands.
C18_NameIsFirstToken ==
    [][ ReadsListing => ListingRecordedAs(FirstWord(Trim(text'[Len(text')]))) ]_vars

\* C18, amended: the stub is named by the trimmed text before the first run
\* of two or more spaces, which is the whole line when there is no such run
\* and may hold single spaces; the rest is as stated.
C18_NameIsFirstPart ==
    [][ ReadsListing => ListingRecordedAs(NamePart(Trim(text'[Len(text')]))) ]_vars

\* a listing with a description and a listing whose name holds a space
C18_Witness ==
    /\ DOMAIN acc.subcommands = { "a", "a,, b" }
    /\ acc.subcommands["a"].description = "first"
    /\ acc.subcommands["a"].group = Some("Core")
    /\ acc.current_group_cmds = << "a", "a,, b" >>

NameGuard(n) == n # "" /\ ~StartsWith(n, "-")

\* C19: rejection guards.  In every result no key of the subcommands map and
\* no name of a group is empty or starts with '-', and every local and
\* global flag has a long name that is not empty and does not start with '-'.
C19_RejectionGuards ==
    Returned =>
        /\ \A k \in DOMAIN ParsedCmd.subcommands : NameGuard(k)
        /\ \A i \in 1..Len(ParsedGroups) :
             \A n \in Range(ParsedGroups[i].commands) : NameGuard(n)
        /\ \A i \in 1..Len(ParsedCmd.flags) : NameGuard(ParsedCmd.flags[i].long)
        /\ \A i \in 1..Len(ParsedGlobals) : NameGuard(ParsedGlobals[i].long)

\* a dash line in a command section and a flag line whose long token is "--"
C19_Witness ==
    /\ Returned
    /\ \E i \in 1..Len(text) :
         ContentOf(i, "Core") /\ StartsWith(Trim(text[i]), "-")
    /\ \E j \in 1..Len(text) :
         ContentOf(j, "Flags") /\ Trim(text[j]) = "-- n"
    /\ ParsedCmd.subcommands = EmptyMap
    /\ ParsedCmd.flags = << >>

----------------------------------------------------------------------------
(* build_command_tree: groups and invocations                               *)

\* C14: root group membership.  In every returned tree the groups are the
\* groups parsed from the root help text, whatever the depth-1 and depth-2
\* invocations printed, and every name they list is a key of
\* tree.root.subcommands.
C14_GroupsAreRootGroups ==
    Built =>
        /\ TheTree.groups = ParseOf(<< binary >>)[3]
        /\ \A n \in Range(Listed(TheTree.groups)) :
             n \in DOMAIN TheTree.root.subcommands

\* a depth-1 and a depth-2 help text had groups of their own
C14_Witness ==
    /\ Built
    /\ TheTree.groups # << >>
    /\ \E c \in Range(calls) :
         /\ Len(c.command) = 2
         /\ c.result.ok
         /\ ParseTable[c.result.val][3] # << >>
         /\ ParseTable[c.result.val][3] # TheTree.groups
    /\ \E c \in Range(calls) :
         /\ Len(c.command) = 3
         /\ c.result.ok
         /\ ParseTable[c.result.val][3] # << >>
         /\ ParseTable[c.result.val][3] # TheTree.groups

\* C16: invocation cap.  Every run_help invocation of a build has a command
\* path of length 1, 2 or 3: the entry point, then a name listed by the root
\* help text, then a name listed by that depth-1 command's help text; a
\* command discovered in a depth-2 help text is never invoked.
C16_InvocationCap ==
    \A i \in 1..Len(calls) :
        LET c == calls[i].command
        IN  /\ Len(c) \in 1..3
            /\ c[1] = binary
            /\ Len(c) >= 2 =>
                 /\ Succeeded(<< binary >>)
                 /\ c[2] \in DOMAIN ParseOf(<< binary >>)[1].subcommands
            /\ Len(c) = 3 =>
                 /\ Succeeded(<< binary, c[2] >>)
                 /\ c[3] \in DOMAIN ParseOf(<< binary, c[2] >>)[1].subcommands

\* a depth-2 help text listed commands and the build ended without them
C16_Witness ==
    /\ Built
    /\ \E c \in Range(calls) :
         /\ Len(c.command) = 3
         /\ c.result.ok
         /\ ParseTable[c.result.val][1].subcommands # EmptyMap

----------------------------------------------------------------------------
(* parse_help_output: no failure mode                                       *)

CommandFields == DOMAIN NewCommand("", "")
FlagFields == { "long", "short", "description", "value_type", "default" }

\* the result is a (Command, global flags, groups) triple
IsTriple(r) ==
    /\ Len(r) = 3
    /\ DOMAIN r[1] = CommandFields
    /\ \A i \in 1..Len(r[1].flags) : DOMAIN r[1].flags[i] = FlagFields
    /\ \A i \in 1..Len(r[2]) : DOMAIN r[2][i] = FlagFields
    /\ \A i \in 1..Len(r[3]) : DOMAIN r[3][i] = { "name", "commands" }

\* every iteration of the token walk from position i ends further on, up
\* to the end of the line
RECURSIVE WalkAdvancesFrom(_, _)
WalkAdvancesFrom(t, i) ==
    IF i > Len(t) THEN i = Len(t) + 1
    ELSE LET after == SkipSpaces(t, SkipToken(t, i))
         IN  after > i /\ WalkAdvancesFrom(t, after)

WalkAdvances(t) == WalkAdvancesFrom(t, SkipSpaces(t, 1))

\* a line that matches no pattern of the state it is read in
Unmatched(a, l) ==
    /\ ~IsHeader(l)
    /\ \/ Trim(l) = ""
       \/ a.section = Preamble /\ StartsWith(Trim(l), "Use \"")
       \/ a.section = Usage /\ a.usage # None
       \/ a.section[1] = "Commands" /\ parse_command_line(l) = None
       \/ a.section \in { Flags, GlobalFlags } /\ parse_flag_line(l) = None

\* the function can return after any line, and what it returns is a triple
C15_ReturnsTriple ==
    /\ (pc = "idle" /\ parsed = None) => ENABLED EndOfText
    /\ Returned => IsTriple(Unwrap(parsed))

\* a step that reads a line: the token walk over it advances, and a line
\* matching no pattern changes nothing
C15_SkipsUnmatched ==
    Len(text') = Len(text) + 1 =>
        /\ WalkAdvances(Trim(text'[Len(text')]))
        /\ Unmatched(acc, text'[Len(text')]) => acc' = acc

\* C15: no failure mode.  After any lines parse_help_output can return, and
\* it returns a (Command, global flags, groups) triple; the token walk of
\* split_flag_description advances on every iteration and ends; and a line
\* that matches no pattern leaves every accumulator unchanged.
C15_NoFailureMode == []C15_ReturnsTriple /\ [][C15_SkipsUnmatched]_vars

\* a hint line and two rejected listing lines were skipped
C15_Witness ==
    /\ Returned
    /\ text = << "Use \"bd --help\"", "Core:", "  --all", "  -- n" >>
    /\ acc = [AccInit EXCEPT !.section = Commands("Core"),
                             !.current_group_name = Some("Core")]
    /\ Unwrap(parsed) = << NewCommand("", ""), << >>, << >> >>

----------------------------------------------------------------------------
(* hint lines                                                               *)

\* a non-header line that begins with the hint prefix
IsHint(l) == ~IsHeader(l) /\ StartsWith(Trim(l), "Use \"")

\* the step reads a hint line
ReadsHint == Len(text') = Len(text) + 1 /\ IsHint(text'[Len(text')])

\* C21: hint lines are discarded everywhere.  A step that reads a non-header
\* line beginning with the hint prefix, in whichever section, adds no local
\* or global flag, no subcommand, no group member and no alias.
C21_HintContributesNothing ==
    [][ ReadsHint =>
          /\ acc'.flags = acc.flags
          /\ acc'.global_flags = acc.global_flags
          /\ acc'.subcommands = acc.subcommands
          /\ acc'.current_group_cmds = acc.current_group_cmds
          /\ acc'.groups = acc.groups
          /\ acc'.aliases = acc.aliases ]_vars

----------------------------------------------------------------------------
(* build_command_tree: which commands are invoked                           *)

RootKeys == DOMAIN ParseOf(<< binary >>)[1].subcommands

\* the command paths a build with this root help text has to invoke
ExpectedCommands ==
    { << binary >> }
      \cup { << binary, k >> : k \in RootKeys }
      \cup UNION { { << binary, k, k2 >> :
                        k2 \in IF Succeeded(<< binary, k >>)
                               THEN DOMAIN ParseOf(<< binary, k >>)[1].subcommands
                               ELSE {} } : k \in RootKeys }

\* C22: invocation coverage.  In a build whose root call succeeded, the
\* invoked paths are the root, every key of the root's subcommands whatever
\* became of its siblings, and every name listed by a depth-1 command whose
\* call succeeded; nothing is invoked below a failed depth-1 command, and
\* every path is invoked exactly once.
C22_InvocationCoverage ==
    Built =>
        /\ { calls[i].command : i \in 1..Len(calls) } = ExpectedCommands
        /\ \A c \in ExpectedCommands : Len(CallsOf(c)) = 1
        /\ \A k \in RootKeys :
             Failed(<< binary, k >>) =>
                \A i \in 1..Len(calls) :
                    ~(Len(calls[i].command) = 3 /\ calls[i].command[2] = k)

\* a depth-1 call failed, a later sibling succeeded and had two children
\* invoked, the first of which failed
C22_Witness ==
    /\ Built
    /\ \E i, j, m, n \in 1..Len(calls) :
         /\ i < j /\ j < m /\ m < n
         /\ Len(calls[i].command) = 2 /\ ~calls[i].result.ok
         /\ Len(calls[j].command) = 2 /\ calls[j].result.ok
         /\ Len(calls[m].command) = 3 /\ ~calls[m].result.ok
         /\ Len(calls[n].command) = 3
         /\ calls[m].command[2] = calls[j].command[2]
         /\ calls[n].command[2] = calls[j].command[2]

----------------------------------------------------------------------------
(* split_flag_description                                                   *)

TrimmedLine == Trim(line)
FlagPart == split_flag_description(TrimmedLine)[1]
DescPart == split_flag_description(TrimmedLine)[2]

OnlySpaces(s) == \A i \in 1..Len(s) : Chr(s, i) = " "

\* a token ends at i, a token containing '-' ends at or before i, and a gap
\* of two or more spaces and a further token follow
BoundaryAt(t, i) ==
    /\ i + 3 <= Len(t)
    /\ Chr(t, i) # " "
    /\ SubSeq(t, i + 1, i + 2) = "  "
    /\ Contains(Upto(t, i), "-")

HasBoundary(t) == \E i \in 1..Len(t) : BoundaryAt(t, i)

\* C23: the flag/description split is a partition of the line.  For every
\* trimmed flag line the flag segment is a prefix of the line and the
\* description a suffix, only spaces lie between them, the flag segment has
\* no trailing space and the description no leading space; when no gap of
\* two or more spaces with a further token comes after a flag-like token,
\* the flag segment is the entire line and the description is empty.
C23_SplitIsPartition ==
    Called =>
        LET t == TrimmedLine
            f == FlagPart
            d == DescPart
        IN  /\ Len(f) + Len(d) <= Len(t)
            /\ f = Upto(t, Len(f))
            /\ d = From(t, Len(t) - Len(d) + 1)
            /\ OnlySpaces(SubSeq(t, Len(f) + 1, Len(t) - Len(d)))
            /\ ~EndsWith(f, " ")
            /\ ~StartsWith(d, " ")
            /\ ~HasBoundary(t) => (f = t /\ d = "")

\* a line split after an absorbed value type, two spaces lying between
C23_Witness ==
    /\ Called
    /\ TrimmedLine = "--all  int  n"
    /\ FlagPart = "--all  int"
    /\ DescPart = "n"

\* a line with a gap before any flag-like token: no boundary, nothing split
C23_WitnessWhole ==
    /\ Called
    /\ TrimmedLine = "n  --all"
    /\ ~HasBoundary(TrimmedLine)
    /\ FlagPart = TrimmedLine

----------------------------------------------------------------------------
(* keys and names                                                           *)

\* every entry below n is stored under its own name and has a group
RECURSIVE KeysAgree(_)
KeysAgree(n) ==
    \A k \in DOMAIN n.subcommands :
        /\ n.subcommands[k].name = k
        /\ IsSome(n.subcommands[k].group)
        /\ KeysAgree(n.subcommands[k])

\* C24: key/name agreement.  In the parse result of every help text read,
\* in the tree as it is built and in every returned tree, each entry of a
\* subcommands map is stored under its node's own name, at every depth and
\* after successful and failed merges alike, and has a group; the root is
\* named by the entry point and has no group.
C24_KeyNameAgreement ==
    /\ \A i \in 1..Len(calls) :
         calls[i].result.ok => KeysAgree(ParseTable[calls[i].result.val][1])
    /\ root_cmd # None =>
         /\ root_cmd.name = binary
         /\ root_cmd.group = None
         /\ KeysAgree(root_cmd)
    /\ Built =>
         /\ TheTree.root.name = binary
         /\ TheTree.root.group = None
         /\ KeysAgree(TheTree.root)

\* a returned tree with nodes at depth 3, after a merge that succeeded and
\* one that failed
C24_Witness ==
    /\ Built
    /\ Level3 # {}
    /\ \E c \in Range(calls) : Len(c.command) = 2 /\ ~c.result.ok
    /\ \E c \in Range(calls) : Len(c.command) = 3 /\ c.result.ok
    /\ \E c \in Range(calls) : Len(c.command) = 3 /\ ~c.result.ok

====
